---- MODULE Spec2Model ----
(***************************************************************************)
(* Model of the response-buffering header-rewrite middleware of            *)
(* add_response_header.go: the wrappedResponseWriter adapter, the          *)
(* CustomContext lookup and plugin.ServeHTTP.                              *)
(*                                                                         *)
(* Strings are sequences of one-character strings ("foo" is                *)
(* <<"f","o","o">>, "" is <<>>).  A header is the list of values stored    *)
(* under one name.  The real response sink (an http.ResponseWriter) is     *)
(* modelled by the calls it receives, in order.                            *)
(***************************************************************************)
EXTENDS Integers, Sequences, FiniteSets, TLC

\* ------------------------------------------------------------------ bounds
\* Largest number of calls the downstream handler makes on the adapter.
MaxCalls == 3

\* ----------------------------------------------------------------- strings
Letters == {"a","b","c","d","e","f","g","h","i","j","k","l","m",
            "n","o","p","q","r","s","t","u","v","w","x","y","z"}

Digits == {"0","1","2","3","4","5","6","7","8","9"}

DigitVal(c) ==
  CASE c = "0" -> 0 [] c = "1" -> 1 [] c = "2" -> 2 [] c = "3" -> 3
    [] c = "4" -> 4 [] c = "5" -> 5 [] c = "6" -> 6 [] c = "7" -> 7
    [] c = "8" -> 8 [] c = "9" -> 9

\* Go's s[a:b] on 0-based offsets.
Slice(s, a, b) == SubSeq(s, a + 1, b)

\* http.Header.Get: the first value stored under the name, "" if none.
Get(values) == IF Len(values) = 0 THEN <<>> ELSE values[1]

\* http.Header.Set: the name now holds exactly one value.
Set(values, v) == <<v>>

\* --------------------------------------------------------- regexp (stdlib)
\* The patterns of the model, as regexp.Compile sees them.
PatWhole == <<"^","(",".","*",")","$">>
PatLit   == <<"o">>
PatAlt   == <<"(","f",")","|","o">>

\* regexp.Compile: the compiled program, reduced to what matching needs.
\*   whole: the pattern is ^(.*)$;  alts: single-character alternatives,
\*   each inside capture group 1 or not;  numSubexp: number of groups.
Compile(pattern) ==
  CASE pattern = PatWhole ->
         [whole |-> TRUE, alts |-> <<>>, numSubexp |-> 1,
          subexpNames |-> << <<>>, <<>> >>]
    [] pattern = PatLit ->
         [whole |-> FALSE, alts |-> <<[c |-> "o", group |-> FALSE]>>,
          numSubexp |-> 0, subexpNames |-> << <<>> >>]
    [] pattern = PatAlt ->
         [whole |-> FALSE,
          alts |-> <<[c |-> "f", group |-> TRUE], [c |-> "o", group |-> FALSE]>>,
          numSubexp |-> 1, subexpNames |-> << <<>>, <<>> >>]

\* The match of a single-character alternative at offset i, <<>> if none:
\* the leftmost alternative that matches wins.
RECURSIVE MatchAt(_, _, _, _)
MatchAt(re, src, i, k) ==
  IF k > Len(re.alts) THEN <<>>
  ELSE IF src[i + 1] = re.alts[k].c
       THEN IF re.numSubexp = 0 THEN <<i, i + 1>>
            ELSE IF re.alts[k].group THEN <<i, i + 1, i, i + 1>>
                 ELSE <<i, i + 1, -1, -1>>
       ELSE MatchAt(re, src, i, k + 1)

RECURSIVE ScanFrom(_, _, _)
ScanFrom(re, src, i) ==
  IF i >= Len(src) THEN <<>>
  ELSE LET m == MatchAt(re, src, i, 1)
       IN  IF m = <<>> THEN ScanFrom(re, src, i + 1)
           ELSE <<m>> \o ScanFrom(re, src, i + 1)

\* Regexp.FindAllStringSubmatchIndex(src, -1): all successive non-overlapping
\* matches, each as the offsets of the match and of its groups (-1: group
\* did not take part).
FindAllStringSubmatchIndex(re, src) ==
  IF re.whole THEN << <<0, Len(src), 0, Len(src)>> >>
  ELSE ScanFrom(re, src, 0)

IsWordChar(c) == c \in Letters \cup Digits \cup {"_"}

RECURSIVE WordLen(_, _)
WordLen(str, i) ==
  IF i < Len(str) /\ IsWordChar(str[i + 1]) THEN WordLen(str, i + 1) ELSE i

RECURSIVE ParseNum(_, _, _)
ParseNum(name, i, num) ==
  IF i >= Len(name) THEN num
  ELSE IF name[i + 1] \notin Digits THEN -1
       ELSE ParseNum(name, i + 1, num * 10 + DigitVal(name[i + 1]))

\* regexp's extract: the leading "name" or "{name}" of str.
Extract(str) ==
  LET bad   == [name |-> <<>>, num |-> 0, rest |-> <<>>, ok |-> FALSE]
      brace == str # <<>> /\ str[1] = "{"
      s     == IF brace THEN Tail(str) ELSE str
      i     == WordLen(s, 0)
      name  == Slice(s, 0, i)
      j     == IF brace THEN i + 1 ELSE i
      n0    == ParseNum(name, 0, 0)
      num   == IF name[1] = "0" /\ Len(name) > 1 THEN -1 ELSE n0
  IN  IF str = <<>> THEN bad
      ELSE IF i = 0 THEN bad
      ELSE IF brace /\ (i >= Len(s) \/ s[i + 1] # "}") THEN bad
      ELSE [name |-> name, num |-> num, rest |-> Slice(s, j, Len(s)), ok |-> TRUE]

RECURSIVE IndexOfDollar(_, _)
IndexOfDollar(t, i) ==
  IF i >= Len(t) THEN -1
  ELSE IF t[i + 1] = "$" THEN i ELSE IndexOfDollar(t, i + 1)

\* The text of group num in match, "" if the group does not exist or did
\* not take part.
GroupText(src, match, num) ==
  IF 2 * num + 1 < Len(match) /\ match[2 * num + 1] >= 0
  THEN Slice(src, match[2 * num + 1], match[2 * num + 2])
  ELSE <<>>

RECURSIVE NamedGroup(_, _, _, _, _)
NamedGroup(re, name, src, match, i) ==
  IF i >= Len(re.subexpNames) THEN <<>>
  ELSE IF name = re.subexpNames[i + 1] /\ 2 * i + 1 < Len(match)
          /\ match[2 * i + 1] >= 0
       THEN Slice(src, match[2 * i + 1], match[2 * i + 2])
       ELSE NamedGroup(re, name, src, match, i + 1)

\* Regexp.ExpandString(dst, template, src, match): dst followed by template
\* with $n, ${n}, $name replaced by the group's text and $$ by $.
RECURSIVE ExpandString(_, _, _, _, _)
ExpandString(re, dst, template, src, match) ==
  LET d == IndexOfDollar(template, 0)
  IN  IF d < 0 THEN dst \o template
      ELSE LET before == Slice(template, 0, d)
               after  == Slice(template, d + 1, Len(template))
               dst1   == dst \o before
           IN  IF after # <<>> /\ after[1] = "$"
               THEN ExpandString(re, dst1 \o <<"$">>, Tail(after), src, match)
               ELSE LET e == Extract(after)
                    IN  IF ~e.ok
                        THEN ExpandString(re, dst1 \o <<"$">>, after, src, match)
                        ELSE IF e.num >= 0
                        THEN ExpandString(re, dst1 \o GroupText(src, match, e.num),
                                          e.rest, src, match)
                        ELSE ExpandString(re, dst1 \o NamedGroup(re, e.name, src, match, 0),
                                          e.rest, src, match)

\* The loop of ServeHTTP over the matches: each expansion is appended to
\* the same accumulator.
RECURSIVE ExpandAll(_, _, _, _, _)
ExpandAll(re, replacement, template, src, matches) ==
  IF matches = <<>> THEN replacement
  ELSE ExpandAll(re, ExpandString(re, replacement, template, src, Head(matches)),
                 template, src, Tail(matches))

\* ------------------------------------------------------------ configuration
From == "X-Src"
To   == "X-Dst"

PatBad == <<"(">>

Tpl1  == <<"$","1">>
TplX0 == <<"x","$","0">>

\* The configurations handed to New.
Configs ==
  [From : {"", From}, To : {"", To},
   Regexp : {PatWhole, PatLit, PatAlt, PatBad},
   Replacement : {Tpl1, TplX0},
   Overwrite : BOOLEAN]

\* CreateConfig: the default pattern and replacement.
CreateConfig ==
  [From |-> "", To |-> "", Regexp |-> PatWhole, Replacement |-> Tpl1,
   Overwrite |-> FALSE]

\* New: the error of construction, "nil" when a plugin is returned.
New(config) ==
  IF config.From = "" THEN "from cannot be empty"
  ELSE IF config.To = "" THEN "to cannot be empty"
  ELSE IF config.Regexp \notin {PatWhole, PatLit, PatAlt}
       THEN "failed to compile regexp"
  ELSE "nil"

\* ------------------------------------------------------------------ context
TraceKey == "tracing.traceID"
OtherKey == "other"

Nil == [kind |-> "nil", s |-> <<>>]
Str(s) == [kind |-> "string", s |-> s]
IntVal == [kind |-> "int", s |-> <<>>]

TraceA == <<"a","b","c","-","1","2","3">>
TraceP == <<"p","-","9">>

NoValues == [k \in {} |-> Nil]

\* context.Context.Value of the parent: nil for a key it does not hold.
ParentValue(parent, key) ==
  IF key \in DOMAIN parent THEN parent[key] ELSE Nil

\* CustomContext.Value: the local map first, then the parent.
Value(c, key) ==
  IF key \in DOMAIN c.values THEN c.values[key]
  ELSE ParentValue(c.parent, key)

\* The request contexts of the model: local values and parent values.
\* No value; a local string over a parent's; a local non-string over a
\* parent's string; a parent's string behind a local map without the key.
Contexts ==
  {[values |-> NoValues, parent |-> NoValues],
   [values |-> (TraceKey :> Str(TraceA)), parent |-> (TraceKey :> Str(TraceP))],
   [values |-> (TraceKey :> IntVal), parent |-> (TraceKey :> Str(TraceP))],
   [values |-> (OtherKey :> Str(TraceA)), parent |-> (TraceKey :> Str(TraceP))]}

\* ------------------------------------------------------------------ request
SrcFoo == <<"f","o","o">>
SrcB   == <<"b">>

\* The values of the source header on the request: absent, "", "foo", "b".
ReqHeaders == {<<>>, << <<>> >>, <<SrcFoo>>, <<SrcB>>}

\* ---------------------------------------------------------------- real sink
Preset  == <<"p","r","e">>
NextVal == <<"n","x","t">>

\* The concrete types of the real sink: net/http's response can be
\* hijacked, httptest's recorder cannot.
SinkTypes == {[name |-> "*http.response", hijacker |-> TRUE],
              [name |-> "*httptest.ResponseRecorder", hijacker |-> FALSE]}

\* The values of the destination header on the sink when the request comes.
SinkHeaders == {<<>>, <<Preset>>}

Event(op, by, code, data) == [op |-> op, by |-> by, code |-> code, data |-> data]

NoConn == "nil"
RawConn == "conn"
NoErr == [msg |-> "nil", type |-> ""]
ErrHijacked == [msg |-> "http: connection has been hijacked", type |-> ""]

\* The real sink's own Hijack (net/http): the raw connection, once.
SinkHijack(sink) ==
  IF sink.hijacked
  THEN [conn |-> NoConn, err |-> ErrHijacked, w |-> sink]
  ELSE [conn |-> RawConn, err |-> NoErr,
        w |-> [sink EXCEPT !.hijacked = TRUE,
                           !.log = Append(@, Event("Hijack", "next", 0, <<>>))]]

\* ------------------------------------------------- wrappedResponseWriter
\* wrappedResponseWriter.Header: the header collection of the real sink.
Header(r, sink) == sink.header

\* Header().Set(To, v) on the adapter: the real sink's header changes.
HeaderSet(r, sink, v, by) ==
  [sink EXCEPT !.header = Set(Header(r, sink), v),
               !.log = Append(@, Event("Header.Set", by, 0, v))]

\* Variant: Write passes the bytes on to the real sink instead of buffering.
Write_Through(r, sink, b) ==
  [resp |-> r,
   w |-> [sink EXCEPT !.log = Append(@, Event("Write", "next", 0, b))],
   n |-> Len(b), err |-> NoErr]

\* wrappedResponseWriter.Write: bytes.Buffer.Write appends and returns
\* len(b), nil.
Write(r, sink, b) ==
  [resp |-> [r EXCEPT !.buf = @ \o b], w |-> sink, n |-> Len(b), err |-> NoErr]

\* wrappedResponseWriter.WriteHeader.
WriteHeader(r, sink, code) ==
  [resp |-> [r EXCEPT !.code = code], w |-> sink]

\* io.Copy(w.w, w.buf) is bytes.Buffer.WriteTo: one Write of the unread
\* bytes when there are any, and the buffer is left empty.
Copy(sink, buf) ==
  IF Len(buf) > 0
  THEN [sink EXCEPT !.log = Append(@, Event("Write", "flush", 0, buf))]
  ELSE sink

\* Variant: Flush copies the body before it sends the status.
Flush_BodyFirst(r, sink) ==
  LET s1 == Copy(sink, r.buf)
  IN  [resp |-> [r EXCEPT !.buf = <<>>],
       w |-> [s1 EXCEPT !.log = Append(@, Event("WriteHeader", "flush", r.code, <<>>))]]

\* wrappedResponseWriter.Flush.
Flush(r, sink) ==
  LET s1 == [sink EXCEPT !.log = Append(@, Event("WriteHeader", "flush", r.code, <<>>))]
  IN  [resp |-> [r EXCEPT !.buf = <<>>], w |-> Copy(s1, r.buf)]

\* Variant: the error of Hijack does not name the sink's type.
Hijack_NoType(r, sink) ==
  IF ~sink.type.hijacker
  THEN [conn |-> NoConn,
        err |-> [msg |-> "is not an http.Hijacker", type |-> ""],
        resp |-> r, w |-> sink]
  ELSE LET h == SinkHijack(sink)
       IN  [conn |-> h.conn, err |-> h.err, resp |-> r, w |-> h.w]

\* wrappedResponseWriter.Hijack.
Hijack(r, sink) ==
  IF ~sink.type.hijacker
  THEN [conn |-> NoConn,
        err |-> [msg |-> "is not an http.Hijacker", type |-> sink.type.name],
        resp |-> r, w |-> sink]
  ELSE LET h == SinkHijack(sink)
       IN  [conn |-> h.conn, err |-> h.err, resp |-> r, w |-> h.w]

\* ------------------------------------------------------------------ plugin
\* Variant: Flush is not deferred.
ServeHTTPDefers_None == <<>>

\* The calls ServeHTTP defers (line 119), in the order they are deferred.
ServeHTTPDefers == <<"Flush">>

\* Variant: the negation of Overwrite is lost.
SkipExisting_Inverted(config, r, sink) ==
  config.Overwrite /\ Get(Header(r, sink)) # <<>>

\* First early return: overwrite is off and the destination is set.
SkipExisting(config, r, sink) ==
  ~config.Overwrite /\ Get(Header(r, sink)) # <<>>

\* Variant: the empty source is not skipped.
SkipNoSource_Never(src) == FALSE

\* Second early return: the source header is empty.
SkipNoSource(src) == src = <<>>

\* The accumulated expansion over all matches of the pattern.
Replacement(config, src) ==
  LET regex == Compile(config.Regexp)
  IN  ExpandAll(regex, <<>>, config.Replacement, src,
                FindAllStringSubmatchIndex(regex, src))

\* req.Context().Value("tracing.traceID").(string)
TraceID(ctx) ==
  LET v == Value(ctx, TraceKey)
  IN  [traceID |-> v.s, ok |-> v.kind = "string"]

\* Variant: the length of the expansion is not tested.
ShouldSet_NoLen(replacement, tid) == tid.ok

\* Variant: the type assertion's result is not tested.
ShouldSet_NoOk(replacement, tid) == Len(replacement) > 0

\* The two nested conditions of lines 141-142.
ShouldSet(replacement, tid) == Len(replacement) > 0 /\ tid.ok

\* Variant: the header receives the expansion.
HeaderValue_Expansion(replacement, tid) == replacement

\* The value line 143 stores: the trace id, not the expansion.
HeaderValue(replacement, tid) == tid.traceID

\* The rewrite decision, lines 123-145: the real sink after it.
Rewrite(config, request, r, sink) ==
  IF SkipExisting(config, r, sink) THEN sink
  ELSE LET src == Get(request.header)
       IN  IF SkipNoSource(src) THEN sink
           ELSE LET replacement == Replacement(config, src)
                    tid == TraceID(request.ctx)
                IN  IF ShouldSet(replacement, tid)
                    THEN HeaderSet(r, sink, HeaderValue(replacement, tid), "plugin")
                    ELSE sink

\* ------------------------------------------------------- downstream handler
Chunks == {<<"A">>, <<"B","C">>}
Codes  == {201, 404}

Call(op, code, data) == [op |-> op, code |-> code, data |-> data]

\* ------------------------------------------------------------------- state
VARIABLES
  cfg,        \* plugin.config
  req,        \* the request: source header values and context
  w,          \* the real sink: type, header values, hijacked, calls received
  resp,       \* the adapter: buf and code
  pc,         \* position of ServeHTTP
  deferred,   \* deferred calls not yet run
  panicking,  \* the downstream handler panicked
  hijackRet,  \* what the last Hijack on the adapter returned
  calls,      \* history: calls of the downstream handler on the adapter
  header0,    \* history: destination header when the request arrived
  flushes     \* history: number of Flush calls

vars == <<cfg, req, w, resp, pc, deferred, panicking, hijackRet, calls,
          header0, flushes>>

NoReq == [header |-> <<>>, ctx |-> [values |-> NoValues, parent |-> NoValues]]
NoSink == [type |-> [name |-> "", hijacker |-> FALSE], header |-> <<>>,
           hijacked |-> FALSE, log |-> <<>>]
NoResp == [buf |-> <<>>, code |-> 0]
NoRet == [conn |-> NoConn, err |-> NoErr]

Init ==
  /\ cfg \in {c \in Configs : New(c) = "nil"}
  /\ req = NoReq
  /\ w = NoSink
  /\ resp = NoResp
  /\ pc = "idle"
  /\ deferred = <<>>
  /\ panicking = FALSE
  /\ hijackRet = NoRet
  /\ calls = <<>>
  /\ header0 = <<>>
  /\ flushes = 0

\* ServeHTTP is entered with a sink and a request; the adapter is built,
\* Flush is deferred and the downstream handler is called (lines 111-121).
ServeHTTPEnter ==
  /\ pc = "idle"
  /\ \E h \in ReqHeaders, c \in Contexts, t \in SinkTypes, d \in SinkHeaders :
       /\ req' = [header |-> h, ctx |-> c]
       /\ w' = [type |-> t, header |-> d, hijacked |-> FALSE, log |-> <<>>]
       /\ header0' = d
  /\ resp' = [buf |-> <<>>, code |-> 200]
  /\ deferred' = ServeHTTPDefers
  /\ pc' = "next"
  /\ UNCHANGED <<cfg, panicking, hijackRet, calls, flushes>>

\* The downstream handler writes a chunk of body.
NextWrite ==
  /\ pc = "next" /\ Len(calls) < MaxCalls
  /\ \E b \in Chunks :
       LET r == Write(resp, w, b)
       IN  /\ resp' = r.resp
           /\ w' = r.w
           /\ calls' = Append(calls, Call("Write", 0, b))
  /\ UNCHANGED <<cfg, req, pc, deferred, panicking, hijackRet, header0, flushes>>

\* The downstream handler sets the status.
NextWriteHeader ==
  /\ pc = "next" /\ Len(calls) < MaxCalls
  /\ \E code \in Codes :
       LET r == WriteHeader(resp, w, code)
       IN  /\ resp' = r.resp
           /\ w' = r.w
           /\ calls' = Append(calls, Call("WriteHeader", code, <<>>))
  /\ UNCHANGED <<cfg, req, pc, deferred, panicking, hijackRet, header0, flushes>>

\* The downstream handler sets the destination header itself.
NextHeaderSet ==
  /\ pc = "next" /\ Len(calls) < MaxCalls
  /\ w' = HeaderSet(resp, w, NextVal, "next")
  /\ calls' = Append(calls, Call("Header.Set", 0, NextVal))
  /\ UNCHANGED <<cfg, req, resp, pc, deferred, panicking, hijackRet, header0, flushes>>

\* The downstream handler takes the connection over.
NextHijack ==
  /\ pc = "next" /\ Len(calls) < MaxCalls
  /\ LET r == Hijack(resp, w)
     IN  /\ resp' = r.resp
         /\ w' = r.w
         /\ hijackRet' = [conn |-> r.conn, err |-> r.err]
  /\ calls' = Append(calls, Call("Hijack", 0, <<>>))
  /\ UNCHANGED <<cfg, req, pc, deferred, panicking, header0, flushes>>

\* Variant: the adapter is flushed as soon as the downstream handler returns.
NextReturn_FlushFirst ==
  /\ pc = "next"
  /\ pc' = "rewrite"
  /\ w' = Flush(resp, w).w
  /\ resp' = Flush(resp, w).resp
  /\ UNCHANGED <<cfg, req, deferred, panicking, hijackRet, calls,
                 header0, flushes>>

\* p.next.ServeHTTP returns (line 121).
NextReturn ==
  /\ pc = "next"
  /\ pc' = "rewrite"
  /\ UNCHANGED <<cfg, req, w, resp, deferred, panicking, hijackRet, calls,
                 header0, flushes>>

\* p.next.ServeHTTP panics: ServeHTTP unwinds through its deferred calls.
NextPanic ==
  /\ pc = "next"
  /\ panicking' = TRUE
  /\ pc' = "exit"
  /\ UNCHANGED <<cfg, req, w, resp, deferred, hijackRet, calls, header0, flushes>>

\* Lines 123-145, up to the return.
RewriteDecision ==
  /\ pc = "rewrite"
  /\ w' = Rewrite(cfg, req, resp, w)
  /\ pc' = "exit"
  /\ UNCHANGED <<cfg, req, resp, deferred, panicking, hijackRet, calls,
                 header0, flushes>>

\* On the way out the deferred calls run, last deferred first.
RunDeferred ==
  /\ pc = "exit" /\ deferred # <<>>
  /\ LET r == Flush(resp, w)
     IN  /\ resp' = r.resp
         /\ w' = r.w
  /\ flushes' = flushes + 1
  /\ deferred' = SubSeq(deferred, 1, Len(deferred) - 1)
  /\ UNCHANGED <<cfg, req, pc, panicking, hijackRet, calls, header0>>

\* ServeHTTP has left.
Exit ==
  /\ pc = "exit" /\ deferred = <<>>
  /\ pc' = "done"
  /\ UNCHANGED <<cfg, req, w, resp, deferred, panicking, hijackRet, calls,
                 header0, flushes>>

Next ==
  \/ ServeHTTPEnter
  \/ NextWrite
  \/ NextWriteHeader
  \/ NextHeaderSet
  \/ NextHijack
  \/ NextReturn
  \/ NextPanic
  \/ RewriteDecision
  \/ RunDeferred
  \/ Exit

Spec == Init /\ [][Next]_vars

\* ---------------------------------------------------------------- histories
\* The component (not the downstream handler) set the destination header.
PluginSet == \E i \in DOMAIN w.log :
               w.log[i].op = "Header.Set" /\ w.log[i].by = "plugin"

\* The downstream handler set the destination header.
NextSet == \E i \in DOMAIN calls : calls[i].op = "Header.Set"

\* The status and body transmissions the real sink has received, in order.
RECURSIVE Transmitted(_)
Transmitted(log) ==
  IF log = <<>> THEN <<>>
  ELSE IF Head(log).op \in {"WriteHeader", "Write"}
       THEN <<[op |-> Head(log).op, code |-> Head(log).code, data |-> Head(log).data]>>
            \o Transmitted(Tail(log))
       ELSE Transmitted(Tail(log))

\* The chunks the downstream handler wrote, concatenated in call order.
RECURSIVE Written(_)
Written(cs) ==
  IF cs = <<>> THEN <<>>
  ELSE IF Head(cs).op = "Write" THEN Head(cs).data \o Written(Tail(cs))
       ELSE Written(Tail(cs))

\* The code of the most recent set-status call, 200 if there was none.
RECURSIVE LastStatus(_)
LastStatus(cs) ==
  IF cs = <<>> THEN 200
  ELSE IF cs[Len(cs)].op = "WriteHeader" THEN cs[Len(cs)].code
       ELSE LastStatus(SubSeq(cs, 1, Len(cs) - 1))

HasCall(op) == \E i \in DOMAIN calls : calls[i].op = op

\* The step is the downstream handler's call op on the adapter.
CallStep(op) ==
  /\ pc = "next" /\ pc' = "next"
  /\ Len(calls') = Len(calls) + 1
  /\ calls'[Len(calls')].op = op

\* ------------------------------------------------------------------- claims

C2_WritesStayInAdapter ==
  [][/\ CallStep("Write") =>
          /\ w' = w
          /\ resp'.buf = resp.buf \o calls'[Len(calls')].data
          /\ resp'.code = resp.code
     /\ CallStep("WriteHeader") =>
          /\ w' = w
          /\ resp'.code = calls'[Len(calls')].code
          /\ resp'.buf = resp.buf
     /\ (flushes' = 0 => Transmitted(w'.log) = <<>>)]_vars

C2_Witness ==
  /\ pc = "rewrite" /\ HasCall("Write") /\ HasCall("WriteHeader")
  /\ resp.buf # <<>> /\ resp.code # 200
  /\ Transmitted(w.log) = <<>>

\* C3: after Flush the real sink has received the status of the most recent
\* set-status call (200 if none) and then, as one Write, the concatenation
\* of all written chunks in call order (no Write for an empty body).
C3_FlushStatusThenBody ==
  flushes = 1 =>
    Transmitted(w.log) =
      <<[op |-> "WriteHeader", code |-> LastStatus(calls), data |-> <<>>]>>
      \o (IF Written(calls) = <<>> THEN <<>>
          ELSE <<[op |-> "Write", code |-> 0, data |-> Written(calls)]>>)

C3_Witness ==
  /\ pc = "done"
  /\ calls = <<Call("Write", 0, <<"A">>), Call("WriteHeader", 201, <<>>),
               Call("Write", 0, <<"B","C">>)>>
  /\ Transmitted(w.log) =
       <<[op |-> "WriteHeader", code |-> 201, data |-> <<>>],
         [op |-> "Write", code |-> 0, data |-> <<"A","B","C">>]>>

C5_NoOverwriteKeepsHeader ==
  (pc # "idle" /\ ~cfg.Overwrite /\ Get(header0) # <<>> /\ ~NextSet)
    => (w.header = header0 /\ ~PluginSet)

C5_Witness ==
  /\ pc = "done" /\ ~panicking
  /\ ~cfg.Overwrite /\ header0 = <<Preset>> /\ ~NextSet
  /\ req.header = <<SrcFoo>> /\ cfg.Regexp = PatWhole /\ cfg.Replacement = Tpl1
  /\ Value(req.ctx, TraceKey) = Str(TraceA)
  /\ w.header = <<Preset>>

\* C6: when the source request header is absent or empty the component
\* never sets the destination header, and the response is still flushed.
C6_NoSourceNoHeader ==
  (pc # "idle" /\ Get(req.header) = <<>>) =>
    /\ ~PluginSet
    /\ pc = "done" =>
         /\ flushes = 1
         /\ Len(Transmitted(w.log)) >= 1
         /\ Transmitted(w.log)[1].op = "WriteHeader"

C6_Witness ==
  /\ pc = "done" /\ ~panicking
  /\ req.header = <<>> /\ cfg.Overwrite /\ cfg.Replacement = TplX0
  /\ cfg.Regexp = PatWhole
  /\ Value(req.ctx, TraceKey) = Str(TraceA)
  /\ HasCall("Write") /\ Len(Transmitted(w.log)) = 2
  /\ w.header = header0

\* C7: when the expansion accumulated over all matches is empty, as when the
\* pattern matches nowhere in a non-empty source, the component never sets
\* the destination header.
C7_EmptyExpansionNoHeader ==
  /\ (pc # "idle" /\ Get(req.header) # <<>>
      /\ Replacement(cfg, Get(req.header)) = <<>>) => ~PluginSet
  /\ (pc # "idle" /\ req.header = <<SrcB>> /\ cfg.Regexp = PatLit) => ~PluginSet

C7_Witness ==
  /\ pc = "done" /\ ~panicking
  /\ req.header = <<SrcB>> /\ cfg.Regexp = PatLit /\ cfg.Replacement = TplX0
  /\ FindAllStringSubmatchIndex(Compile(cfg.Regexp), SrcB) = <<>>
  /\ cfg.Overwrite /\ Value(req.ctx, TraceKey) = Str(TraceA)
  /\ w.header = header0

\* C8: when the context holds no value under the trace key, or a value that
\* is not a string, the component never sets the destination header.
C8_NoTraceNoHeader ==
  LET local  == req.ctx.values
      parent == req.ctx.parent
      absent == TraceKey \notin DOMAIN local /\ TraceKey \notin DOMAIN parent
      notStr == \/ TraceKey \in DOMAIN local /\ local[TraceKey].kind # "string"
                \/ /\ TraceKey \notin DOMAIN local
                   /\ TraceKey \in DOMAIN parent
                   /\ parent[TraceKey].kind # "string"
  IN  (pc # "idle" /\ (absent \/ notStr)) => ~PluginSet

C8_Witness ==
  /\ pc = "done" /\ ~panicking
  /\ req.ctx = [values |-> NoValues, parent |-> NoValues]
  /\ req.header = <<SrcFoo>> /\ cfg.Regexp = PatWhole /\ cfg.Replacement = Tpl1
  /\ cfg.Overwrite
  /\ w.header = header0

\* C9: non-empty source, a pattern matching once, replacement $1 with a
\* non-empty expansion, a string trace value in the context, destination
\* header not otherwise set, downstream handler returned: the destination
\* header ends up equal to the trace value, not to the expansion.
C9_HeaderIsTraceValue ==
  LET src     == Get(req.header)
      matches == FindAllStringSubmatchIndex(Compile(cfg.Regexp), src)
      v       == Value(req.ctx, TraceKey)
  IN  (/\ pc \in {"exit", "done"} /\ ~panicking
       /\ src # <<>> /\ Len(matches) = 1 /\ cfg.Replacement = Tpl1
       /\ Slice(src, matches[1][3], matches[1][4]) # <<>>
       /\ v.kind = "string"
       /\ header0 = <<>> /\ ~NextSet)
      => (w.header = <<v.s>> /\ w.header # <<Slice(src, matches[1][3], matches[1][4])>>)

C9_Witness ==
  /\ pc = "done"
  /\ req.header = <<SrcFoo>> /\ cfg.Regexp = PatWhole /\ cfg.Replacement = Tpl1
  /\ Value(req.ctx, TraceKey) = Str(TraceA)
  /\ header0 = <<>> /\ ~NextSet
  /\ w.header = <<TraceA>>

\* C10: Hijack on the adapter returns no connection and an error naming the
\* sink's concrete type when the sink cannot be hijacked, and otherwise
\* exactly what the sink's own Hijack returns; it leaves the adapter's
\* accumulated body and recorded status as they are.
C10_Hijack ==
  [][CallStep("Hijack") =>
       /\ resp' = resp
       /\ ~w.type.hijacker =>
            /\ hijackRet'.conn = NoConn
            /\ hijackRet'.err = [msg |-> "is not an http.Hijacker",
                                 type |-> w.type.name]
            /\ w' = w
       /\ w.type.hijacker =>
            /\ hijackRet' = [conn |-> SinkHijack(w).conn, err |-> SinkHijack(w).err]
            /\ w' = SinkHijack(w).w
            /\ (~w.hijacked => hijackRet' = [conn |-> RawConn, err |-> NoErr])]_vars

C10_Witness ==
  /\ calls = <<Call("Write", 0, <<"A">>), Call("WriteHeader", 404, <<>>),
               Call("Hijack", 0, <<>>)>>
  /\ hijackRet = [conn |-> NoConn,
                  err |-> [msg |-> "is not an http.Hijacker",
                           type |-> "*httptest.ResponseRecorder"]]
  /\ resp = [buf |-> <<"A">>, code |-> 404]

====
